---------------------------- MODULE Spec2Model ----------------------------
(* A model of github-pullrequestd (src/app.go): the pull-request dependency  *)
(* cache kept by App.updateCache, the webhook and bootstrap paths that       *)
(* submit updates to it, the GET endpoint that reads it, and the Jenkins     *)
(* job trigger.                                                              *)
(*                                                                           *)
(* Go strings are sequences of one-character strings, so that Split, Atoi    *)
(* and the DependsOn regular expression are computed as the code computes    *)
(* them. Go maps are functions with a finite domain; a missing key is a key  *)
(* outside the domain.                                                       *)
EXTENDS Integers, Sequences, FiniteSets, TLC

(***************************************************************************)
(* Bounds of the model.                                                    *)
(***************************************************************************)
\* pull request numbers range over 1..MaxNum
MaxNum == 2
\* webhook events accepted after bootstrap (caps the length of a run)
MaxEvents == 2
\* DependsOn lines in a pull request body
MaxDeps == 2
\* pull requests listed by GitHub at startup
MaxBoot == 2
\* Jenkins endpoints in the configuration file
MaxEndpoints == 3
\* rules in each of the two repository lists of the configuration file
MaxRules == 2

(***************************************************************************)
(* Strings.                                                                *)
(***************************************************************************)
svc == <<"s", "v", "c">>
lib == <<"l", "i", "b">>
ext == <<"e", "x", "t">>
EmptyStr == <<>>
CRLF == <<"CR", "LF">>
DependsOnPrefix == <<"D", "e", "p", "e", "n", "d", "s", "O", "n", ":">>

DigitChars == {"0", "1", "2", "3", "4", "5", "6", "7", "8", "9"}
LowerChars == {"a", "b", "c", "d", "e", "f", "g", "h", "i", "j", "k", "l", "m",
               "n", "o", "p", "q", "r", "s", "t", "u", "v", "w", "x", "y", "z"}
\* the character class [a-z0-9\-_] of the DependsOn expression
NameChars == LowerChars \cup DigitChars \cup {"-", "_"}

DigitVal(ch) ==
    CASE ch = "0" -> 0 [] ch = "1" -> 1 [] ch = "2" -> 2 [] ch = "3" -> 3
      [] ch = "4" -> 4 [] ch = "5" -> 5 [] ch = "6" -> 6 [] ch = "7" -> 7
      [] ch = "8" -> 8 [] ch = "9" -> 9

\* fmt.Sprintf("%d", n) / strconv.Itoa for the small positive numbers of the model
RECURSIVE Itoa(_)
Itoa(n) ==
    LET d == CASE n % 10 = 0 -> "0" [] n % 10 = 1 -> "1" [] n % 10 = 2 -> "2"
               [] n % 10 = 3 -> "3" [] n % 10 = 4 -> "4" [] n % 10 = 5 -> "5"
               [] n % 10 = 6 -> "6" [] n % 10 = 7 -> "7" [] n % 10 = 8 -> "8"
               [] n % 10 = 9 -> "9"
    IN IF n < 10 THEN <<d>> ELSE Itoa(n \div 10) \o <<d>>

RECURSIVE DigitsValue(_)
DigitsValue(s) ==
    IF Len(s) = 0 THEN 0
    ELSE 10 * DigitsValue(SubSeq(s, 1, Len(s) - 1)) + DigitVal(s[Len(s)])

\* strconv.Atoi: an optional sign, then one or more decimal digits; anything
\* else is an error. (The numbers of the model stay far below 2^63.)
Atoi(s) ==
    LET signed == Len(s) > 0 /\ s[1] \in {"+", "-"}
        ds == IF signed THEN SubSeq(s, 2, Len(s)) ELSE s
        ok == Len(ds) > 0 /\ \A k \in 1..Len(ds) : ds[k] \in DigitChars
    IN [ok |-> ok,
        val |-> IF ~ok THEN 0
                ELSE IF signed /\ s[1] = "-" THEN 0 - DigitsValue(ds)
                ELSE DigitsValue(ds)]

\* strings.Index: the first position where sep occurs in s, 0 when it does not
Index(s, sep) ==
    LET hits == {k \in 1..(Len(s) - Len(sep) + 1) :
                    SubSeq(s, k, k + Len(sep) - 1) = sep}
    IN IF hits = {} THEN 0 ELSE CHOOSE k \in hits : \A j \in hits : k <= j

\* strings.Split for a non-empty separator
RECURSIVE Split(_, _)
Split(s, sep) ==
    LET k == Index(s, sep)
    IN IF k = 0 THEN <<s>>
       ELSE <<SubSeq(s, 1, k - 1)>> \o Split(SubSeq(s, k + Len(sep), Len(s)), sep)

\* regexp.MatchString("^DependsOn:[a-z0-9\\-_]{3,40}#[0-9]{1,10}$", line)
MatchDependsOn(line) ==
    /\ Len(line) > Len(DependsOnPrefix)
    /\ SubSeq(line, 1, Len(DependsOnPrefix)) = DependsOnPrefix
    /\ LET rest == SubSeq(line, Len(DependsOnPrefix) + 1, Len(line))
           h == Index(rest, <<"#">>)
           name == SubSeq(rest, 1, h - 1)
           digits == SubSeq(rest, h + 1, Len(rest))
       IN /\ h > 0
          /\ Len(name) >= 3 /\ Len(name) <= 40
          /\ \A k \in 1..Len(name) : name[k] \in NameChars
          /\ Len(digits) >= 1 /\ Len(digits) <= 10
          /\ \A k \in 1..Len(digits) : digits[k] \in DigitChars

(***************************************************************************)
(* Go maps.                                                                *)
(***************************************************************************)
EmptyMap == <<>>
Put(m, k, v) == [x \in (DOMAIN m) \cup {k} |-> IF x = k THEN v ELSE m[x]]
Del(m, k) == [x \in (DOMAIN m) \ {k} |-> m[x]]
\* _, hasKey := m[a][b]  and  _, hasKey := m[a][b][c]; a read of a nil map finds no key
Has2(m, a, b) == a \in DOMAIN m /\ b \in DOMAIN m[a]
Has3(m, a, b, c) == Has2(m, a, b) /\ c \in DOMAIN m[a][b]
\* delete(m[a], b)  and  delete(m[a][b], c); a delete from a nil map does nothing
Del2(m, a, b) == IF Has2(m, a, b) THEN Put(m, a, Del(m[a], b)) ELSE m
Del3(m, a, b, c) ==
    IF Has3(m, a, b, c) THEN Put(m, a, Put(m[a], b, Del(m[a][b], c))) ELSE m


(***************************************************************************)
(* The cache update engine: App.updateCache, as operators on a cache       *)
(* record [Branches, Dependencies, Dependents].                            *)
(***************************************************************************)
Upserts == {"opened", "edited", "reopened"}

EmptyCache == [Branches |-> EmptyMap, Dependencies |-> EmptyMap, Dependents |-> EmptyMap]

\* faulty variant of BranchStep: a closed pull request keeps its branch
BranchStep_KeepClosed(c, action, repo, num, branch) ==
    IF action \in Upserts
    THEN LET inner == IF repo \in DOMAIN c.Branches THEN c.Branches[repo] ELSE EmptyMap
         IN [c EXCEPT !.Branches = Put(c.Branches, repo, Put(inner, num, branch))]
    ELSE c

\* lines 109-125: set or unset the pull request in Branches
BranchStep(c, action, repo, num, branch) ==
    IF action \in Upserts
    THEN LET inner == IF repo \in DOMAIN c.Branches THEN c.Branches[repo] ELSE EmptyMap
         IN [c EXCEPT !.Branches = Put(c.Branches, repo, Put(inner, num, branch))]
    ELSE IF action = "closed"
    THEN [c EXCEPT !.Branches = Del2(c.Branches, repo, num)]
    ELSE c

\* lines 133-142: a copy of Dependencies[repo][num], empty when there is none
DepsBefore(c, repo, num) ==
    IF Has2(c.Dependencies, repo, num) THEN c.Dependencies[repo][num] ELSE EmptyMap

\* faulty variant of ResetDeps: an existing edge map is kept (merge, not replace)
ResetDeps_Merge(c, repo, num) ==
    LET inner == IF repo \in DOMAIN c.Dependencies THEN c.Dependencies[repo] ELSE EmptyMap
    IN [c EXCEPT !.Dependencies =
            Put(c.Dependencies, repo, Put(inner, num, DepsBefore(c, repo, num)))]

\* lines 145-151: Dependencies[repo][num] becomes a fresh empty map
ResetDeps(c, repo, num) ==
    LET inner == IF repo \in DOMAIN c.Dependencies THEN c.Dependencies[repo] ELSE EmptyMap
    IN [c EXCEPT !.Dependencies = Put(c.Dependencies, repo, Put(inner, num, EmptyMap))]

\* the 'tidy up' block (lines 163-170, 182-189, 237-244): drop the keys of a
\* pull request that has no branch
TidyUp(c, r, n) ==
    [c EXCEPT !.Dependencies = Del2(c.Dependencies, r, n),
              !.Dependents = Del2(c.Dependents, r, n)]

\* faulty variant of CleanOne: the reverse entry of the old edge is kept
CleanOne_KeepReverse(c, repo, r, n) ==
    IF ~Has2(c.Branches, r, n) THEN TidyUp(c, r, n) ELSE c

\* lines 155-171, one iteration of the loop over depsBefore
CleanOne(c, repo, r, n) ==
    LET c1 == [c EXCEPT !.Dependents = Del3(c.Dependents, r, n, repo)]
    IN IF ~Has2(c1.Branches, r, n) THEN TidyUp(c1, r, n) ELSE c1

\* lines 154-172: the loop over depsBefore; Go ranges over a map in an
\* unspecified order, given here as a sequence of its keys
RECURSIVE CleanDependents(_, _, _, _)
CleanDependents(c, repo, before, order) ==
    IF Len(order) = 0 THEN c
    ELSE CleanDependents(CleanOne(c, repo, order[1], before[order[1]]),
                         repo, before, Tail(order))

\* lines 191-205: record the edge repo#num -> r#i and its reverse entry
SetEdge(c, repo, num, r, i) ==
    LET deps == Put(c.Dependencies, repo,
                    Put(c.Dependencies[repo], num, Put(c.Dependencies[repo][num], r, i)))
        outer == IF r \in DOMAIN c.Dependents THEN c.Dependents[r] ELSE EmptyMap
        inner == IF i \in DOMAIN outer THEN outer[i] ELSE EmptyMap
    IN [c EXCEPT !.Dependencies = deps,
                 !.Dependents = Put(c.Dependents, r, Put(outer, i, Put(inner, repo, num)))]

\* faulty variant of AddOne: the edge is recorded without looking the target up in Branches
AddOne_NoStaleCheck(c, repo, num, dep) ==
    LET vals == Split(dep, <<"#">>)
        a == Atoi(vals[2])
    IN IF ~a.ok THEN c ELSE SetEdge(c, repo, num, vals[1], a.val)

\* lines 176-207, one iteration of the loop over depsAfter.
\* vals[1] of the code is vals[2] here: a token without "#" is an index out of range.
AddOne(c, repo, num, dep) ==
    LET vals == Split(dep, <<"#">>)
        a == Atoi(vals[2])
    IN IF ~a.ok THEN c
       ELSE IF ~Has2(c.Branches, vals[1], a.val) THEN TidyUp(c, vals[1], a.val)
       ELSE SetEdge(c, repo, num, vals[1], a.val)

\* lines 175-208
RECURSIVE AddDependencies(_, _, _, _)
AddDependencies(c, repo, num, depsAfter) ==
    IF Len(depsAfter) = 0 THEN c
    ELSE AddDependencies(AddOne(c, repo, num, Head(depsAfter)), repo, num, Tail(depsAfter))

\* lines 224-246, one iteration of the loop over depsAfter of a closed event
CloseOne(c, repo, num, dep) ==
    LET vals == Split(dep, <<"#">>)
        a == Atoi(vals[2])
        c1 == IF Has3(c.Dependents, vals[1], a.val, repo)
                 /\ c.Dependents[vals[1]][a.val][repo] = num
              THEN [c EXCEPT !.Dependents = Del3(c.Dependents, vals[1], a.val, repo)]
              ELSE c
    IN IF ~a.ok THEN c
       ELSE IF ~Has2(c1.Branches, vals[1], a.val) THEN TidyUp(c1, vals[1], a.val)
       ELSE c1

RECURSIVE CloseLinks(_, _, _, _)
CloseLinks(c, repo, num, depsAfter) ==
    IF Len(depsAfter) = 0 THEN c
    ELSE CloseLinks(CloseOne(c, repo, num, Head(depsAfter)), repo, num, Tail(depsAfter))

\* faulty variant of ClosePR: Dependents[repo][num] of the closed pull request is kept
ClosePR_KeepDependents(c, repo, num, depsAfter) ==
    CloseLinks([c EXCEPT !.Dependencies = Del2(c.Dependencies, repo, num)],
               repo, num, depsAfter)

\* lines 211-248: the closed branch
ClosePR(c, repo, num, depsAfter) ==
    CloseLinks(TidyUp(c, repo, num), repo, num, depsAfter)

\* lines 144-172: reset the edge map and clean the reverse entries of the old edges
ResetAndClean(c, action, repo, num, before, order) ==
    IF action \in Upserts
    THEN CleanDependents(ResetDeps(c, repo, num), repo, before, order)
    ELSE c

\* lines 174-248: add the declared edges, or unset the closed pull request
AddOrClose(c, action, repo, num, depsAfter) ==
    IF action \in Upserts THEN AddDependencies(c, repo, num, depsAfter)
    ELSE IF action = "closed" THEN ClosePR(c, repo, num, depsAfter)
    ELSE c

\* reflect.DeepEqual(depsBefore, app.cache.Dependencies[repo][num]): depsBefore
\* is never nil, so a missing (nil) edge map is unequal even to an empty one
DeepEqualDeps(before, c, repo, num) ==
    Has2(c.Dependencies, repo, num) /\ before = c.Dependencies[repo][num]

\* faulty variant of ShouldTrigger: every edited event triggers
ShouldTrigger_EveryEdit(action, before, c, repo, num) == action = "edited"

\* faulty variant of ShouldTrigger: opened and reopened events with changed edges trigger too
ShouldTrigger_AnyUpsert(action, before, c, repo, num) ==
    action \in Upserts /\ ~DeepEqualDeps(before, c, repo, num)

\* lines 250-254: is triggerPRJob called
ShouldTrigger(action, before, c, repo, num) ==
    action = "edited" /\ ~DeepEqualDeps(before, c, repo, num)

\* lines 109-248: the cache after a whole updateCache call
UpdatedCache(c, action, repo, num, branch, depsAfter, branchesOnly, order) ==
    LET c1 == BranchStep(c, action, repo, num, branch)
        before == DepsBefore(c1, repo, num)
    IN IF branchesOnly THEN c1
       ELSE AddOrClose(ResetAndClean(c1, action, repo, num, before, order),
                       action, repo, num, depsAfter)

\* the orders in which a range over map m can visit its keys
Orders(m) ==
    {s \in [1..Cardinality(DOMAIN m) -> DOMAIN m] :
        \A i, j \in 1..Cardinality(DOMAIN m) : i # j => s[i] # s[j]}

(***************************************************************************)
(* The repository filter and the DependsOn directive extraction.           *)
(***************************************************************************)
\* regexp.MatchString for the patterns the model's configuration uses:
\* literal characters with an optional leading ^ and an optional trailing $
RegexpMatch(pattern, s) ==
    LET atStart == Len(pattern) > 0 /\ pattern[1] = "^"
        p1 == IF atStart THEN Tail(pattern) ELSE pattern
        atEnd == Len(p1) > 0 /\ p1[Len(p1)] = "$"
        lit == IF atEnd THEN SubSeq(p1, 1, Len(p1) - 1) ELSE p1
        hits == {k \in 1..(Len(s) - Len(lit) + 1) : SubSeq(s, k, k + Len(lit) - 1) = lit}
    IN \E k \in hits : /\ atStart => k = 1
                       /\ atEnd => k + Len(lit) - 1 = Len(s)

\* lines 407-418 and 421-432: does one rule match the repository
RuleMatches(r, repo) ==
    IF ~r.RegExp THEN r.Name = <<"*">> \/ r.Name = repo
    ELSE RegexpMatch(r.Name, repo)

\* lines 406-419: the loop over the inclusion rules; the first match sets f and
\* ends the loop
RECURSIVE IncludeLoop(_, _, _)
IncludeLoop(rules, repo, f) ==
    IF Len(rules) = 0 THEN f
    ELSE IF RuleMatches(Head(rules), repo) THEN TRUE
    ELSE IncludeLoop(Tail(rules), repo, f)

\* faulty variant of ExcludeLoop: an exclusion match does not override an inclusion
ExcludeLoop_KeepIncluded(rules, repo, f) == f

\* lines 420-433: the loop over the exclusion rules; the first match clears f and
\* ends the loop
RECURSIVE ExcludeLoop(_, _, _)
ExcludeLoop(rules, repo, f) ==
    IF Len(rules) = 0 THEN f
    ELSE IF RuleMatches(Head(rules), repo) THEN FALSE
    ELSE ExcludeLoop(Tail(rules), repo, f)

\* lines 404-435
checkIfRepoShouldBeIncluded(config, repo) ==
    ExcludeLoop(config.ExcludeRepositories, repo,
                IncludeLoop(config.Repositories, repo, FALSE))

\* lines 463-471: the tokens of the DependsOn lines of a pull request body
RECURSIVE TokensOfLines(_)
TokensOfLines(lines) ==
    IF Len(lines) = 0 THEN <<>>
    ELSE (IF MatchDependsOn(Head(lines)) THEN <<Split(Head(lines), <<":">>)[2]>> ELSE <<>>)
         \o TokensOfLines(Tail(lines))

ExtractDependsOn(body) == TokensOfLines(Split(body, CRLF))

(***************************************************************************)
(* Inputs: the configuration, the pull requests GitHub lists at startup    *)
(* and the webhook requests.                                               *)
(***************************************************************************)
Nums == 1..MaxNum
Repos == {svc, lib}
Actions == {"opened", "edited", "reopened", "closed", "synchronize"}
BranchNames == {"b1"}

Token(repo, n) == repo \o <<"#">> \o Itoa(n)
Tokens == {Token(r, n) : r \in Repos, n \in Nums}
\* a token with a leading zero, and one whose suffix is not a number
ZeroToken == lib \o <<"#", "0", "1">>
BadToken == lib \o <<"#", "x">>

SeqsUpTo(S, n) == UNION {[1..k -> S] : k \in 0..n}
\* the token lists of the bodies of svc's pull requests: those over the pull
\* requests of lib, a dependency of svc#1 on itself, and a number written with a
\* leading zero; and those of lib's pull requests
SvcTokenLists ==
    SeqsUpTo({Token(lib, n) : n \in Nums}, MaxDeps) \cup {<<Token(svc, 1)>>, <<ZeroToken>>}
LibTokenLists == {<<>>, <<Token(svc, 1)>>}

\* a pull request body: one DependsOn line per token, joined by CRLF, after a title line
RECURSIVE BodyOf(_)
BodyOf(toks) ==
    IF Len(toks) = 0 THEN <<"x">>
    ELSE BodyOf(SubSeq(toks, 1, Len(toks) - 1)) \o CRLF \o DependsOnPrefix \o toks[Len(toks)]

\* the configuration file of the model: every repository but those matching ^ex
Config ==
    [Repositories |-> <<[Name |-> <<"*">>, RegExp |-> FALSE]>>,
     ExcludeRepositories |-> <<[Name |-> <<"^", "e", "x">>, RegExp |-> TRUE]>>]

\* the Jenkins endpoints of the configuration file of the model
Endpoints ==
    <<[Path |-> <<"a">>, RetryDelay |-> <<"1">>, RetryCount |-> <<"2">>, Success |-> {201}],
      [Path |-> <<"b">>, RetryDelay |-> <<"0">>, RetryCount |-> <<"0">>, Success |-> {201}],
      [Path |-> <<"c">>, RetryDelay |-> <<"x">>, RetryCount |-> <<"1">>, Success |-> {201}]>>

\* JenkinsEndpoint.GetRetryDelay, GetRetryCount: the configured text as a number,
\* an error when it is not one
GetRetryDelay(endp) == Atoi(endp.RetryDelay)
GetRetryCount(endp) == Atoi(endp.RetryCount)
\* JenkinsEndpoint.CheckHTTPStatus
CheckHTTPStatus(endp, code) == code \in endp.Success

\* the endpoint definitions a configuration file is made of: two tries, counts of
\* zero and below, a retry delay and a retry count that are not numbers
EndpointKinds ==
    {[Path |-> <<"a">>, RetryDelay |-> <<"1">>, RetryCount |-> <<"2">>, Success |-> {201}],
     [Path |-> <<"b">>, RetryDelay |-> <<"0">>, RetryCount |-> <<"0">>, Success |-> {201}],
     [Path |-> <<"n">>, RetryDelay |-> <<"1">>, RetryCount |-> <<"-", "1">>, Success |-> {201}],
     [Path |-> <<"c">>, RetryDelay |-> <<"x">>, RetryCount |-> <<"1">>, Success |-> {201}],
     [Path |-> <<"d">>, RetryDelay |-> <<"1">>, RetryCount |-> <<>>, Success |-> {201}]}
EndpointLists == UNION {[1..k -> EndpointKinds] : k \in 0..MaxEndpoints}

\* what GetPullRequestList returns (lines 285, 301)
BootPRs ==
    {[Repository |-> lib, Number |-> 1, Branch |-> "b1", DependsOn |-> <<>>],
     [Repository |-> svc, Number |-> 1, Branch |-> "b1", DependsOn |-> <<Token(lib, 1)>>],
     [Repository |-> svc, Number |-> 1, Branch |-> "b1", DependsOn |-> <<BadToken>>],
     [Repository |-> svc, Number |-> 1, Branch |-> "b1", DependsOn |-> <<Token(svc, 1)>>]}
BootLists ==
    {l \in SeqsUpTo(BootPRs, MaxBoot) :
        \A i, j \in 1..Len(l) :
            i # j => <<l[i].Repository, l[i].Number>> # <<l[j].Repository, l[j].Number>>}

\* the requests POSTed to the webhook
PullRequestEvents ==
    [sigOK : {TRUE}, json : {TRUE}, event : {"pull_request"}, action : Actions,
     repo : {svc}, num : Nums, branch : BranchNames,
     body : {BodyOf(t) : t \in SvcTokenLists}]
    \cup
    [sigOK : {TRUE}, json : {TRUE}, event : {"pull_request"}, action : Actions,
     repo : {lib}, num : Nums, branch : BranchNames,
     body : {BodyOf(t) : t \in LibTokenLists}]
    \cup
    \* lib#1 edited after its head branch was renamed
    [sigOK : {TRUE}, json : {TRUE}, event : {"pull_request"}, action : {"edited"},
     repo : {lib}, num : {1}, branch : {"b2"}, body : {BodyOf(<<>>)}]
OtherRequests ==
    LET ev == [sigOK |-> TRUE, json |-> TRUE, event |-> "pull_request", action |-> "closed",
               repo |-> svc, num |-> 1, branch |-> "b1", body |-> BodyOf(<<>>)]
    IN {[ev EXCEPT !.sigOK = FALSE], [ev EXCEPT !.json = FALSE],
        [ev EXCEPT !.event = "ping"], [ev EXCEPT !.event = "ping", !.json = FALSE],
        [ev EXCEPT !.event = "push"],
        [ev EXCEPT !.repo = EmptyStr], [ev EXCEPT !.body = EmptyStr],
        [ev EXCEPT !.repo = ext],
        [ev EXCEPT !.action = "edited", !.body = EmptyStr]}
Requests == PullRequestEvents \cup OtherRequests
\* the request of an update that no request caused (the bootstrap's)
NoRequest ==
    [sigOK |-> TRUE, json |-> TRUE, event |-> "", action |-> "", repo |-> EmptyStr,
     num |-> 0, branch |-> "", body |-> EmptyStr]

(***************************************************************************)
(* State.                                                                  *)
(***************************************************************************)
VARIABLES
    cfg,        \* app.cfg: the repository rules and the Jenkins endpoints
    cache,      \* app.cache: Branches, Dependencies, Dependents
    phase,      \* where startHandler is: "pass1", "pass2", then "serving"
    prList,     \* the pull requests listed at startup
    idx,        \* position of the current bootstrap loop in prList
    events,     \* webhook requests handled so far
    log,        \* the requests and bootstrap updates handled so far, oldest first,
                \* each with what it did and the cache it left
    mu,         \* app.cache.mu: "free", or the caller whose updateCache holds it
    wg,         \* the counter of app.wg
    tasks,      \* per caller (startHandler, each webhook request in flight): where
                \* it is, and where the updateCache goroutine it started is
    reader,     \* the GET request in flight and what it has read so far
    crashed     \* the Go runtime has stopped the process

seqVars == <<cfg, cache, phase, prList, idx, events, log>>
concVars == <<mu, wg, tasks, reader, crashed>>
vars == <<cfg, cache, phase, prList, idx, events, log, mu, wg, tasks, reader, crashed>>

Callers == {"main", "h1", "h2"}
Handlers == {"h1", "h2"}

NoArgs ==
    [kind |-> "none", req |-> NoRequest, action |-> "", repo |-> EmptyStr, num |-> 0,
     branch |-> "", deps |-> <<>>, branchesOnly |-> FALSE]
IdleTask ==
    [pc |-> "idle", gpc |-> "none", upd |-> NoArgs, before |-> EmptyMap, fired |-> FALSE,
     ep |-> 0, iterations |-> 0, status |-> 0, trace |-> <<>>, results |-> <<>>]
IdleReader == [pc |-> "idle", got |-> EmptyCache]

ConcInit ==
    /\ mu = "free"
    /\ wg = 0
    /\ tasks = [t \in Callers |-> IdleTask]
    /\ reader = IdleReader
    /\ crashed = FALSE

\* the configuration file startHandler loads (lines 258-265)
Loaded(filter, endps) == cfg = [Filter |-> filter, Endpoints |-> endps]

\* lines 486-491 (Run) and the entry of startHandler
Init ==
    /\ Loaded(Config, Endpoints)
    /\ cache = EmptyCache
    /\ phase = "pass1"
    /\ prList \in BootLists
    /\ idx = 1
    /\ events = 0
    /\ log = <<>>
    /\ ConcInit

(***************************************************************************)
(* Completed updateCache calls. cache.mu is held from the first to the     *)
(* last statement of updateCache (lines 105-107), so a completed call is   *)
(* one step from the cache before it to the cache after it.                *)
(***************************************************************************)
\* lines 104-255: one whole call, with the order of the range over depsBefore
updateCache(kind, req, action, repo, num, branch, depsAfter, branchesOnly, order, status) ==
    LET c1 == BranchStep(cache, action, repo, num, branch)
        before == DepsBefore(c1, repo, num)
        c2 == UpdatedCache(cache, action, repo, num, branch, depsAfter, branchesOnly, order)
        fire == ~branchesOnly /\ ShouldTrigger(action, before, c2, repo, num)
    IN /\ cache' = c2
       /\ log' = Append(log,
                  [kind |-> kind, req |-> req, applied |-> TRUE, action |-> action,
                   repo |-> repo,
                   num |-> num, branch |-> branch, deps |-> depsAfter,
                   branchesOnly |-> branchesOnly,
                   before |-> IF branchesOnly THEN EmptyMap ELSE before,
                   triggers |-> IF fire THEN 1 ELSE 0, status |-> status, post |-> c2])

\* lines 292-296: the first bootstrap loop, branches only
BootBranches ==
    /\ phase = "pass1" /\ idx <= Len(prList)
    /\ LET pr == prList[idx]
       IN \E order \in Orders(DepsBefore(cache, pr.Repository, pr.Number)) :
            updateCache("boot", NoRequest, "opened", pr.Repository, pr.Number, pr.Branch,
                        pr.DependsOn, TRUE, order, 0)
    /\ idx' = idx + 1
    /\ UNCHANGED <<phase, prList, cfg, events>>
    /\ UNCHANGED concVars

\* lines 297-300: the first loop is over, the second starts
BootSecondPass ==
    /\ phase = "pass1" /\ idx > Len(prList)
    /\ phase' = "pass2" /\ idx' = 1
    /\ UNCHANGED <<cache, prList, cfg, events, log>>
    /\ UNCHANGED concVars

\* lines 306-310: the second bootstrap loop, with dependencies
BootDependencies ==
    /\ phase = "pass2" /\ idx <= Len(prList)
    /\ LET pr == prList[idx]
       IN \E order \in Orders(DepsBefore(cache, pr.Repository, pr.Number)) :
            updateCache("boot", NoRequest, "opened", pr.Repository, pr.Number, pr.Branch,
                        pr.DependsOn, FALSE, order, 0)
    /\ idx' = idx + 1
    /\ UNCHANGED <<phase, prList, cfg, events>>
    /\ UNCHANGED concVars

\* lines 313-321: bootstrap is over, the API starts
StartAPI ==
    /\ phase = "pass2" /\ idx > Len(prList)
    /\ phase' = "serving" /\ prList' = <<>> /\ idx' = 1
    /\ UNCHANGED <<cfg, cache, events, log>>
    /\ UNCHANGED concVars

\* faulty variant of ShortCircuits: a payload with an empty body goes on
ShortCircuits_BodyIgnored(req, included) == req.repo = EmptyStr \/ ~included

\* lines 450-461: the returns of processPayloadOnPullRequestDependsOn before it
\* reads the body, given what checkIfRepoShouldBeIncluded answers for the repository
ShortCircuits(req, included) ==
    req.repo = EmptyStr \/ req.body = EmptyStr \/ ~included

\* what a request that reaches no updateCache call leaves behind
Answered(req, status) ==
    /\ log' = Append(log,
                [kind |-> "webhook", req |-> req, applied |-> FALSE, action |-> req.action,
                 repo |-> req.repo, num |-> req.num, branch |-> req.branch,
                 deps |-> <<>>, branchesOnly |-> FALSE, before |-> EmptyMap,
                 triggers |-> 0, status |-> status, post |-> cache])
    /\ UNCHANGED cache

\* lines 359-386, 388-402 and 437-480: a POST to the webhook, up to its response
apiHandlerPost(req) ==
    /\ phase = "serving" /\ events < MaxEvents
    /\ events' = events + 1
    /\ UNCHANGED <<phase, prList, cfg, idx>>
    /\ UNCHANGED concVars
    /\ IF ~req.sigOK THEN Answered(req, 401)
       ELSE IF req.event = "ping" THEN Answered(req, 200)
       ELSE IF ~req.json THEN Answered(req, 500)
       ELSE IF req.event # "pull_request" THEN Answered(req, 200)
       ELSE IF ShortCircuits(req, checkIfRepoShouldBeIncluded(cfg.Filter, req.repo))
            THEN Answered(req, 200)
       ELSE \E order \in Orders(DepsBefore(cache, req.repo, req.num)) :
               updateCache("webhook", req, req.action, req.repo, req.num, req.branch,
                           ExtractDependsOn(req.body), FALSE, order, 200)

Next ==
    \/ BootBranches
    \/ BootSecondPass
    \/ BootDependencies
    \/ StartAPI
    \/ \E req \in Requests : apiHandlerPost(req)

Spec == Init /\ [][Next]_vars

(***************************************************************************)
(* Vocabulary of the properties.                                           *)
(***************************************************************************)
\* the (repo, num) pairs that are keys of a two-level map
KeysOf(m) == UNION {{<<r, n>> : n \in DOMAIN m[r]} : r \in DOMAIN m}

\* <<P, T>> for every Dependencies[P.repo][P.num][T.repo] == T.num
ForwardEdges(c) ==
    UNION {{<<P, <<t, c.Dependencies[P[1]][P[2]][t]>>>> :
                t \in DOMAIN c.Dependencies[P[1]][P[2]]} : P \in KeysOf(c.Dependencies)}

\* <<P, T>> for every Dependents[T.repo][T.num][P.repo] == P.num
ReverseEdges(c) ==
    UNION {{<<<<r, c.Dependents[T[1]][T[2]][r]>>, T>> :
                r \in DOMAIN c.Dependents[T[1]][T[2]]} : T \in KeysOf(c.Dependents)}

\* the pull request a token names, when its suffix is a number
TargetOf(tok) ==
    LET vals == Split(tok, <<"#">>)
    IN [ok |-> Len(vals) >= 2 /\ Atoi(vals[2]).ok,
        key |-> <<vals[1], IF Len(vals) >= 2 THEN Atoi(vals[2]).val ELSE 0>>]

TokenSet(toks) == {toks[k] : k \in 1..Len(toks)}

\* the cache before entry k of the log was handled
PreOf(k) == IF k = 1 THEN EmptyCache ELSE log[k - 1].post

\* entry k of the log is a completed updateCache call with dependencies
IsUpdate(k) == log[k].applied /\ ~log[k].branchesOnly
KeyOf(k) == <<log[k].repo, log[k].num>>

\* the latest opened/edited/reopened update of the same pull request before entry k
PrevUpserts(k) ==
    {j \in 1..(k - 1) : IsUpdate(j) /\ log[j].action \in Upserts /\ KeyOf(j) = KeyOf(k)}
PrevUpsert(k) == CHOOSE j \in PrevUpserts(k) : \A i \in PrevUpserts(k) : i <= j

(***************************************************************************)
(* C1. Reverse-index consistency: after any sequence of completed          *)
(* updateCache calls, Dependents[tRepo][tNum][repo] == num holds exactly   *)
(* when Dependencies[repo][num][tRepo] == tNum holds.                      *)
(***************************************************************************)
C1_ReverseIndexConsistency == ForwardEdges(cache) = ReverseEdges(cache)

(***************************************************************************)
(* C2. Referential integrity: after any sequence of completed updateCache  *)
(* calls, every (repo, num) that is a key of Dependencies or of Dependents *)
(* has a Branches entry.                                                   *)
(***************************************************************************)
C2_ReferentialIntegrity ==
    \A K \in KeysOf(cache.Dependencies) \cup KeysOf(cache.Dependents) :
        Has2(cache.Branches, K[1], K[2])

\* a pull request that had edges, or was depended upon, has just been closed
C2_Witness ==
    /\ Len(log) > 0
    /\ LET k == Len(log)
       IN /\ IsUpdate(k) /\ log[k].action = "closed"
          /\ KeyOf(k) \in KeysOf(PreOf(k).Dependents)
          /\ PreOf(k).Dependencies[log[k].repo][log[k].num] # EmptyMap
          /\ ~Has2(cache.Branches, log[k].repo, log[k].num)

(***************************************************************************)
(* C5. No-op edit (as claimed): an edited event whose token set equals     *)
(* that of the pull request's previous opened/edited/reopened event does   *)
(* not invoke triggerPRJob, and one whose token set differs invokes it     *)
(* exactly once.                                                           *)
(***************************************************************************)
C5_NoOpEditByTokens ==
    \A k \in 1..Len(log) :
        (IsUpdate(k) /\ log[k].action = "edited" /\ PrevUpserts(k) # {}) =>
            log[k].triggers =
                IF TokenSet(log[k].deps) = TokenSet(log[PrevUpsert(k)].deps) THEN 0 ELSE 1

(***************************************************************************)
(* C5, amended. An edited event that leaves Dependencies[repo][num] equal  *)
(* to the edge map the pull request had before the event does not invoke   *)
(* triggerPRJob, and one that leaves it different invokes it exactly once. *)
(***************************************************************************)
C5_NoOpEditByEdges ==
    \A k \in 1..Len(log) :
        (IsUpdate(k) /\ log[k].action = "edited") =>
            log[k].triggers =
                IF DepsBefore(log[k].post, log[k].repo, log[k].num)
                     = DepsBefore(PreOf(k), log[k].repo, log[k].num)
                THEN 0 ELSE 1

\* both cases have happened: an edit that changed the edges and one that did not
C5_Witness ==
    /\ \E k \in 1..Len(log) :
          IsUpdate(k) /\ log[k].action = "edited" /\ log[k].triggers = 1
    /\ \E k \in 1..Len(log) :
          /\ IsUpdate(k) /\ log[k].action = "edited" /\ log[k].triggers = 0
          /\ DepsBefore(PreOf(k), log[k].repo, log[k].num) # EmptyMap

(***************************************************************************)
(* C6. updateCache invokes triggerPRJob exactly when the action is edited, *)
(* branchesOnly is false and the recomputed Dependencies[repo][num]        *)
(* differs from the edge map captured before the update; no other update,  *)
(* and no request that reaches no update, invokes it.                      *)
(***************************************************************************)
C6_TriggerExactlyOnChangedEdit ==
    \A k \in 1..Len(log) :
        log[k].triggers =
            IF /\ log[k].applied /\ log[k].action = "edited" /\ ~log[k].branchesOnly
               /\ DepsBefore(log[k].post, log[k].repo, log[k].num)
                    # DepsBefore(PreOf(k), log[k].repo, log[k].num)
            THEN 1 ELSE 0

\* an opened update changed the edges of its pull request, and a bootstrap update ran
C6_Witness ==
    /\ \E k \in 1..Len(log) :
          /\ IsUpdate(k) /\ log[k].action \in {"opened", "reopened"}
          /\ log[k].kind = "webhook"
          /\ DepsBefore(log[k].post, log[k].repo, log[k].num)
               # DepsBefore(PreOf(k), log[k].repo, log[k].num)
    /\ \E k \in 1..Len(log) : log[k].applied /\ log[k].branchesOnly
    /\ \E k \in 1..Len(log) : log[k].triggers = 1

(***************************************************************************)
(* C7. Lifecycle closure: applying opened and then closed for the same pull *)
(* request leaves no entry for it in Branches, Dependencies or Dependents, *)
(* and no entry recording it as a dependent in another Dependents map.     *)
(***************************************************************************)
NoResidue(c, K) ==
    /\ ~Has2(c.Branches, K[1], K[2])
    /\ ~Has2(c.Dependencies, K[1], K[2])
    /\ ~Has2(c.Dependents, K[1], K[2])
    /\ \A e \in ReverseEdges(c) : e[1] # K

C7_LifecycleClosure ==
    \A k \in 2..Len(log) :
        (/\ IsUpdate(k - 1) /\ log[k - 1].action = "opened"
         /\ IsUpdate(k) /\ log[k].action = "closed"
         /\ KeyOf(k) = KeyOf(k - 1)) => NoResidue(log[k].post, KeyOf(k))

(***************************************************************************)
(* C8. Stale-target drop (as claimed): an opened/edited/reopened update    *)
(* for P with a token naming T, when Branches has no entry for T, leaves   *)
(* Dependencies[P] without an entry for T's repository and Dependents[T]   *)
(* absent; after T is then opened and P edited again with the same token,  *)
(* Dependencies[P][T.repo] == T.num and Dependents[T][P.repo] == P.num.    *)
(***************************************************************************)
HasEdge(c, P, T) == <<P, T>> \in ForwardEdges(c)
HasReverse(c, P, T) == <<P, T>> \in ReverseEdges(c)

\* the targets the well-formed tokens of a list name
TargetsOf(toks) == {TargetOf(t).key : t \in {u \in TokenSet(toks) : TargetOf(u).ok}}

\* entry k is an opened/edited/reopened update whose list names T, which had no branch
StaleDeclared(k, T) ==
    /\ IsUpdate(k) /\ log[k].action \in Upserts
    /\ T \in TargetsOf(log[k].deps)
    /\ ~Has2(PreOf(k).Branches, T[1], T[2])

\* entries k-2, k-1, k: P declares the stale T, T is opened, P is edited with T again
StaleThenOpened(k, T) ==
    /\ k >= 3
    /\ StaleDeclared(k - 2, T)
    /\ log[k - 1].applied /\ log[k - 1].action = "opened" /\ KeyOf(k - 1) = T
    /\ IsUpdate(k) /\ log[k].action = "edited" /\ KeyOf(k) = KeyOf(k - 2)
    /\ T \in TargetsOf(log[k].deps)

C8_StaleTargetDrop ==
    \A k \in 1..Len(log) : \A T \in TargetsOf(log[k].deps) :
        /\ StaleDeclared(k, T) =>
              /\ T[1] \notin DOMAIN DepsBefore(log[k].post, log[k].repo, log[k].num)
              /\ ~Has2(log[k].post.Dependents, T[1], T[2])
        /\ StaleThenOpened(k, T) =>
              /\ HasEdge(log[k].post, KeyOf(k), T)
              /\ HasReverse(log[k].post, KeyOf(k), T)

(***************************************************************************)
(* C8, amended. The same, for a target T other than P itself that is the   *)
(* only pull request of its repository the token list names, and with P    *)
(* edited again with the same token list.                                  *)
(***************************************************************************)
OnlyTargetInRepo(toks, T) == \A U \in TargetsOf(toks) : U[1] = T[1] => U = T

C8_StaleTargetDropSingle ==
    \A k \in 1..Len(log) : \A T \in TargetsOf(log[k].deps) :
        (T # KeyOf(k) /\ OnlyTargetInRepo(log[k].deps, T)) =>
            /\ StaleDeclared(k, T) =>
                  /\ T[1] \notin DOMAIN DepsBefore(log[k].post, log[k].repo, log[k].num)
                  /\ ~Has2(log[k].post.Dependents, T[1], T[2])
            /\ (StaleThenOpened(k, T) /\ log[k].deps = log[k - 2].deps) =>
                  /\ HasEdge(log[k].post, KeyOf(k), T)
                  /\ HasReverse(log[k].post, KeyOf(k), T)

\* the whole scenario has run: stale declaration, target opened, dependent edited
C8_Witness ==
    /\ Len(log) >= 3
    /\ LET k == Len(log)
       IN \E T \in TargetsOf(log[k].deps) :
            /\ T # KeyOf(k) /\ OnlyTargetInRepo(log[k].deps, T)
            /\ StaleThenOpened(k, T) /\ log[k].deps = log[k - 2].deps
            /\ DepsBefore(log[k - 2].post, log[k].repo, log[k].num) = EmptyMap
            /\ HasEdge(cache, KeyOf(k), T)

(***************************************************************************)
(* C9. Garbage collection on close (as claimed): given the edge P -> T in  *)
(* both indices, closing T and then editing P with any token list leaves   *)
(* neither the edge P -> T in Dependencies nor the entry for P under       *)
(* Dependents[T], and no Dependencies[T] or Dependents[T] key.             *)
(***************************************************************************)
\* entries k-1, k: T is closed while P -> T is in both indices, then P is edited
ClosedThenEdited(k, P, T) ==
    /\ k >= 2
    /\ HasEdge(PreOf(k - 1), P, T) /\ HasReverse(PreOf(k - 1), P, T)
    /\ IsUpdate(k - 1) /\ log[k - 1].action = "closed" /\ KeyOf(k - 1) = T
    /\ IsUpdate(k) /\ log[k].action = "edited" /\ KeyOf(k) = P

Purged(c, P, T) ==
    /\ ~HasEdge(c, P, T)
    /\ ~HasReverse(c, P, T)
    /\ ~Has2(c.Dependencies, T[1], T[2])
    /\ ~Has2(c.Dependents, T[1], T[2])

C9_GarbageCollectionOnClose ==
    \A k \in 2..Len(log) : \A e \in ForwardEdges(PreOf(k - 1)) :
        ClosedThenEdited(k, e[1], e[2]) => Purged(log[k].post, e[1], e[2])

(***************************************************************************)
(* C9, amended. The same, for a target T other than P itself.              *)
(***************************************************************************)
C9_GarbageCollectionOnCloseOther ==
    \A k \in 2..Len(log) : \A e \in ForwardEdges(PreOf(k - 1)) :
        (e[1] # e[2] /\ ClosedThenEdited(k, e[1], e[2])) => Purged(log[k].post, e[1], e[2])

\* the scenario has run, with the edit declaring the closed target again
C9_Witness ==
    /\ Len(log) >= 2
    /\ LET k == Len(log)
       IN \E e \in ForwardEdges(PreOf(k - 1)) :
            /\ e[1] # e[2] /\ ClosedThenEdited(k, e[1], e[2])
            /\ e[2] \in TargetsOf(log[k].deps)
            /\ HasEdge(log[k - 1].post, e[1], e[2])

(***************************************************************************)
(* The concurrent program: every caller starts updateCache as a goroutine  *)
(* and waits on the shared WaitGroup; the goroutines contend for cache.mu; *)
(* the GET endpoint reads the cache without taking it. A goroutine's       *)
(* statements are steps here, so that other tasks run between them.        *)
(***************************************************************************)
\* what one iteration of the retry loop can meet: GetCrumb fails, Post fails, or
\* Post returns a response with this status
Outcomes ==
    {[err |-> "crumb", code |-> 0], [err |-> "post", code |-> 0],
     [err |-> "", code |-> 201], [err |-> "", code |-> 500]}

\* the requests and the startup listings of the concurrent runs
ConcRequests ==
    {r \in Requests :
        \/ r.event = "ping" /\ r.json
        \/ /\ r.event = "pull_request" /\ r.sigOK /\ r.json
           /\ \/ r.action = "edited" /\ r.repo = svc /\ r.num = 1
                 /\ r.body = BodyOf(<<Token(lib, 1)>>)
              \/ r.action \in {"opened", "closed"} /\ r.repo = lib /\ r.num = 1
                 /\ r.body = BodyOf(<<>>)}
ConcBootLists ==
    {l \in BootLists :
        \A k \in 1..Len(l) :
            l[k].DependsOn \in {<<>>, <<Token(lib, 1)>>} /\ (k = 1 => l[k].Repository = lib)}

\* sync.Mutex.Lock returns only when no one holds the mutex
CanLock(m) == m = "free"

\* faulty variant of CanPassWait: Wait returns while one Done is still outstanding
CanPassWait_Early(n) == n <= 1

\* sync.WaitGroup.Wait returns only when the counter is zero
CanPassWait(n) == n = 0

\* lines 293-294, 307-308, 475-476: wg.Add(1); go app.updateCache(...)
Spawn(t, args) ==
    /\ wg' = wg + 1
    /\ tasks' = [tasks EXCEPT ![t] = [IdleTask EXCEPT !.pc = "wait", !.gpc = "lock",
                                                       !.upd = args, !.status = 200]]

\* lines 292-294 and 306-308: startHandler submits the update of the next listed pull request
C_BootSubmit ==
    /\ ~crashed
    /\ phase \in {"pass1", "pass2"} /\ idx <= Len(prList) /\ tasks["main"].pc = "idle"
    /\ LET pr == prList[idx]
       IN Spawn("main", [kind |-> "boot", req |-> NoRequest, action |-> "opened", repo |-> pr.Repository,
                         num |-> pr.Number, branch |-> pr.Branch, deps |-> pr.DependsOn,
                         branchesOnly |-> (phase = "pass1")])
    /\ UNCHANGED <<cache, phase, prList, cfg, idx, events, log, mu, reader, crashed>>

\* lines 295, 309, 477: wg.Wait() returns
C_Wait(t) ==
    /\ ~crashed
    /\ tasks[t].pc = "wait" /\ CanPassWait(wg)
    /\ tasks' = [tasks EXCEPT ![t].pc = "respond"]
    /\ UNCHANGED <<cache, phase, prList, cfg, idx, events, log, mu, wg, reader, crashed>>

\* lines 296, 310 (the loop goes on) and 479, 384-385 (the webhook answers)
C_Return(t) ==
    /\ ~crashed
    /\ tasks[t].pc = "respond"
    /\ tasks' = [tasks EXCEPT ![t] = IdleTask]
    /\ idx' = IF t = "main" THEN idx + 1 ELSE idx
    /\ UNCHANGED <<cache, phase, prList, cfg, events, log, mu, wg, reader, crashed>>

\* lines 297-300
C_BootSecondPass ==
    /\ ~crashed
    /\ phase = "pass1" /\ idx > Len(prList) /\ tasks["main"].pc = "idle"
    /\ phase' = "pass2" /\ idx' = 1
    /\ UNCHANGED <<cache, prList, cfg, events, log, mu, wg, tasks, reader, crashed>>

\* lines 313-321
C_StartAPI ==
    /\ ~crashed
    /\ phase = "pass2" /\ idx > Len(prList) /\ tasks["main"].pc = "idle"
    /\ phase' = "serving" /\ prList' = <<>> /\ idx' = 1
    /\ UNCHANGED <<cfg, cache, events, log, mu, wg, tasks, reader, crashed>>

\* lines 359-386, 388-402, 437-477: a POST up to its answer or to its wg.Wait()
C_Post(h, req) ==
    /\ ~crashed
    /\ phase = "serving" /\ events < MaxEvents /\ tasks[h].pc = "idle"
    /\ events' = events + 1
    /\ LET status == IF ~req.sigOK THEN 401
                     ELSE IF req.event = "ping" THEN 200
                     ELSE IF ~req.json THEN 500
                     ELSE 200
           submits == /\ req.sigOK /\ req.event = "pull_request" /\ req.json
                      /\ ~ShortCircuits(req, checkIfRepoShouldBeIncluded(cfg.Filter, req.repo))
       IN IF submits
          THEN /\ Spawn(h, [kind |-> "webhook", req |-> req, action |-> req.action, repo |-> req.repo,
                            num |-> req.num, branch |-> req.branch,
                            deps |-> ExtractDependsOn(req.body), branchesOnly |-> FALSE])
               /\ UNCHANGED log
          ELSE /\ tasks' = [tasks EXCEPT ![h] = [IdleTask EXCEPT !.pc = "respond",
                                                                  !.status = status]]
               /\ log' = Append(log,
                    [kind |-> "webhook", req |-> req, applied |-> FALSE, action |-> req.action,
                     repo |-> req.repo, num |-> req.num, branch |-> req.branch,
                     deps |-> <<>>, branchesOnly |-> FALSE, before |-> EmptyMap,
                     triggers |-> 0, status |-> status, post |-> cache])
               /\ UNCHANGED wg
    /\ UNCHANGED <<cache, phase, prList, cfg, idx, mu, reader, crashed>>

\* line 105: app.cache.mu.Lock()
G_Lock(t) ==
    /\ ~crashed
    /\ tasks[t].gpc = "lock" /\ CanLock(mu)
    /\ mu' = t
    /\ tasks' = [tasks EXCEPT ![t].gpc = "branch"]
    /\ UNCHANGED <<cache, phase, prList, cfg, idx, events, log, wg, reader, crashed>>

\* the log entry of the update of task t, made when its last write to the cache is done
Applied(t, before, fire, c) ==
    LET u == tasks[t].upd
    IN log' = Append(log,
                [kind |-> u.kind, req |-> u.req, applied |-> TRUE, action |-> u.action, repo |-> u.repo,
                 num |-> u.num, branch |-> u.branch, deps |-> u.deps,
                 branchesOnly |-> u.branchesOnly, before |-> before,
                 triggers |-> IF fire THEN 1 ELSE 0,
                 status |-> tasks[t].status, post |-> c])

\* lines 109-129
G_Branch(t) ==
    /\ ~crashed
    /\ tasks[t].gpc = "branch"
    /\ LET u == tasks[t].upd
           c1 == BranchStep(cache, u.action, u.repo, u.num, u.branch)
       IN /\ cache' = c1
          /\ tasks' = [tasks EXCEPT ![t].gpc = IF u.branchesOnly THEN "unlock" ELSE "clean"]
          /\ IF u.branchesOnly THEN Applied(t, EmptyMap, FALSE, c1) ELSE UNCHANGED log
    /\ UNCHANGED <<phase, prList, cfg, idx, events, mu, wg, reader, crashed>>

\* lines 133-172
G_Clean(t) ==
    /\ ~crashed
    /\ tasks[t].gpc = "clean"
    /\ LET u == tasks[t].upd
           before == DepsBefore(cache, u.repo, u.num)
       IN /\ \E order \in Orders(before) :
                cache' = ResetAndClean(cache, u.action, u.repo, u.num, before, order)
          /\ tasks' = [tasks EXCEPT ![t].gpc = "add", ![t].before = before]
    /\ UNCHANGED <<phase, prList, cfg, idx, events, log, mu, wg, reader, crashed>>

\* lines 174-254, up to the call of triggerPRJob
G_Add(t) ==
    /\ ~crashed
    /\ tasks[t].gpc = "add"
    /\ LET u == tasks[t].upd
           c2 == AddOrClose(cache, u.action, u.repo, u.num, u.deps)
           fire == ShouldTrigger(u.action, tasks[t].before, c2, u.repo, u.num)
       IN /\ cache' = c2
          /\ tasks' = [tasks EXCEPT ![t].gpc = IF fire THEN "trigger" ELSE "unlock",
                                    ![t].fired = fire, ![t].ep = 1]
          /\ Applied(t, tasks[t].before, fire, c2)
    /\ UNCHANGED <<phase, prList, cfg, idx, events, mu, wg, reader, crashed>>

\* faulty variant of AfterConfigError: the endpoint is skipped and the loop goes on
AfterConfigError_Continue(e, n) == e + 1

\* lines 93-95 and 97-99: break leaves the loop over the n endpoints
AfterConfigError(e, n) == n + 1

\* faulty variant of NextEndpoint: a failed endpoint ends the loop
NextEndpoint_BreakOnError(e, n, err) == IF err THEN n + 1 ELSE e + 1

\* lines 100-101: the error processJenkinsEndpointRetries returns is dropped and
\* the loop goes to the next endpoint
NextEndpoint(e, n, err) == e + 1

\* faulty variant of LoopGoesOn: one iteration too many
LoopGoesOn_OneMore(iterations, retryCount) == iterations <= retryCount

\* line 54: for iterations < retryCount
LoopGoesOn(iterations, retryCount) == iterations < retryCount

\* what processJenkinsEndpointRetries returned for endpoint e (lines 83, 86)
Returned(t, e, err) == Append(tasks[t].results, [ep |-> e, err |-> err])

\* lines 91-100: the head of the loop over the endpoints, and lines 52-54, 86
T_Endpoint(t) ==
    /\ ~crashed
    /\ tasks[t].gpc = "trigger"
    /\ LET e == tasks[t].ep
           n == Len(cfg.Endpoints)
       IN tasks' =
            IF e > n THEN [tasks EXCEPT ![t].gpc = "unlock"]
            ELSE IF ~GetRetryDelay(cfg.Endpoints[e]).ok \/ ~GetRetryCount(cfg.Endpoints[e]).ok
            THEN [tasks EXCEPT ![t].ep = AfterConfigError(e, n)]
            ELSE IF GetRetryCount(cfg.Endpoints[e]).val > 0
                    /\ LoopGoesOn(0, GetRetryCount(cfg.Endpoints[e]).val)
            THEN [tasks EXCEPT ![t].gpc = "retry", ![t].iterations = 0]
            ELSE [tasks EXCEPT ![t].ep = NextEndpoint(e, n, TRUE),
                               ![t].results = Returned(t, e, TRUE)]
    /\ UNCHANGED <<cache, phase, prList, cfg, idx, events, log, mu, wg, reader, crashed>>

\* lines 55-83: one iteration of the retry loop, up to its sleep or its return.
\* The trace keeps what the iteration did: whether GetCrumb succeeded, whether
\* Post was called, whether the status it returned was an accepted one.
T_Retry(t, outcome) ==
    /\ ~crashed
    /\ tasks[t].gpc = "retry"
    /\ LET e == tasks[t].ep
           ok == outcome.err = "" /\ CheckHTTPStatus(cfg.Endpoints[e], outcome.code)
           tr == Append(tasks[t].trace,
                        [ep |-> e, crumb |-> outcome.err # "crumb",
                         post |-> outcome.err # "crumb", accepted |-> ok])
       IN tasks' =
            IF ok
            THEN [tasks EXCEPT ![t].gpc = "trigger", ![t].trace = tr,
                               ![t].ep = NextEndpoint(e, Len(cfg.Endpoints), FALSE),
                               ![t].results = Returned(t, e, FALSE)]
            ELSE [tasks EXCEPT ![t].gpc = "sleep", ![t].trace = tr]
    /\ UNCHANGED <<cache, phase, prList, cfg, idx, events, log, mu, wg, reader, crashed>>

\* lines 39, 68, 78 (time.Sleep returns), then 59-60, 69-70, 79-80 and 54, 86
T_Wake(t) ==
    /\ ~crashed
    /\ tasks[t].gpc = "sleep"
    /\ LET i == tasks[t].iterations + 1
           e == tasks[t].ep
       IN tasks' =
            IF LoopGoesOn(i, GetRetryCount(cfg.Endpoints[e]).val)
            THEN [tasks EXCEPT ![t].gpc = "retry", ![t].iterations = i]
            ELSE [tasks EXCEPT ![t].gpc = "trigger", ![t].iterations = i,
                               ![t].ep = NextEndpoint(e, Len(cfg.Endpoints), TRUE),
                               ![t].results = Returned(t, e, TRUE)]
    /\ UNCHANGED <<cache, phase, prList, cfg, idx, events, log, mu, wg, reader, crashed>>

\* line 107, deferred: app.cache.mu.Unlock()
G_Unlock(t) ==
    /\ ~crashed
    /\ tasks[t].gpc = "unlock"
    /\ mu' = "free"
    /\ tasks' = [tasks EXCEPT ![t].gpc = "done"]
    /\ UNCHANGED <<cache, phase, prList, cfg, idx, events, log, wg, reader, crashed>>

\* line 106, deferred: app.wg.Done()
G_Done(t) ==
    /\ ~crashed
    /\ tasks[t].gpc = "done"
    /\ wg' = wg - 1
    /\ tasks' = [tasks EXCEPT ![t].gpc = "finished"]
    /\ UNCHANGED <<cache, phase, prList, cfg, idx, events, log, mu, reader, crashed>>

\* lines 342-348: a GET arrives; it is refused when its token header is wrong
R_Get(authorized) ==
    /\ ~crashed
    /\ phase = "serving" /\ reader.pc = "idle"
    /\ reader' = [reader EXCEPT !.pc = IF authorized THEN "Branches" ELSE "refused"]
    /\ UNCHANGED <<cache, phase, prList, cfg, idx, events, log, mu, wg, tasks, crashed>>

\* line 350: json.Marshal(app.cache) encodes the maps one after the other, and
\* takes no lock
R_Branches ==
    /\ ~crashed
    /\ reader.pc = "Branches"
    /\ reader' = [reader EXCEPT !.pc = "Dependencies", !.got.Branches = cache.Branches]
    /\ UNCHANGED <<cache, phase, prList, cfg, idx, events, log, mu, wg, tasks, crashed>>

R_Dependencies ==
    /\ ~crashed
    /\ reader.pc = "Dependencies"
    /\ reader' = [reader EXCEPT !.pc = "Dependents",
                                !.got.Dependencies = cache.Dependencies]
    /\ UNCHANGED <<cache, phase, prList, cfg, idx, events, log, mu, wg, tasks, crashed>>

R_Dependents ==
    /\ ~crashed
    /\ reader.pc = "Dependents"
    /\ reader' = [reader EXCEPT !.pc = "responded", !.got.Dependents = cache.Dependents]
    /\ UNCHANGED <<cache, phase, prList, cfg, idx, events, log, mu, wg, tasks, crashed>>

\* lines 345-346 and 355-356: the response is written, the request is over
R_Return ==
    /\ ~crashed
    /\ reader.pc \in {"responded", "refused"}
    /\ reader' = IdleReader
    /\ UNCHANGED <<cache, phase, prList, cfg, idx, events, log, mu, wg, tasks, crashed>>

\* line 350 while a goroutine is between lines 109 and 248: an unsynchronized
\* read of a map that is being written is a data race; besides reading some
\* intermediate cache (the steps above), the Go runtime may detect it and stop
\* the process ("concurrent map read and map write")
R_Race ==
    /\ ~crashed
    /\ reader.pc \in {"Branches", "Dependencies", "Dependents"}
    /\ \E t \in Callers : tasks[t].gpc \in {"branch", "clean", "add"}
    /\ crashed' = TRUE
    /\ UNCHANGED <<cache, phase, prList, cfg, idx, events, log, mu, wg, tasks, reader>>

ConcNext ==
    \/ C_BootSubmit
    \/ C_BootSecondPass
    \/ C_StartAPI
    \/ \E t \in Callers : C_Wait(t) \/ C_Return(t)
    \/ \E h \in Handlers : \E req \in ConcRequests : C_Post(h, req)
    \/ \E t \in Callers : G_Lock(t) \/ G_Branch(t) \/ G_Clean(t) \/ G_Add(t)
    \/ \E t \in Callers : T_Endpoint(t) \/ T_Wake(t) \/ (\E o \in Outcomes : T_Retry(t, o))
    \/ \E t \in Callers : G_Unlock(t) \/ G_Done(t)
    \/ \E a \in BOOLEAN : R_Get(a)
    \/ R_Branches \/ R_Dependencies \/ R_Dependents \/ R_Return \/ R_Race

ConcStart == Init /\ prList \in ConcBootLists

ConcSpec == ConcStart /\ [][ConcNext]_vars

(***************************************************************************)
(* C3. The Job Trigger never holds the cache lock while it waits or        *)
(* retries: no task is inside triggerPRJob / processJenkinsEndpointRetries *)
(* (its retry sleeps included) while cache.mu is held.                     *)
(***************************************************************************)
InTrigger(t) == tasks[t].gpc \in {"trigger", "retry", "sleep"}

C3_TriggerOutsideLock == \A t \in Callers : InTrigger(t) => mu = "free"

(***************************************************************************)
(* C4. A GET running concurrently with updateCache never returns a         *)
(* partially applied update: what it returns is the cache as it was before *)
(* or after some whole updateCache call.                                   *)
(***************************************************************************)
\* the caches at the boundaries of the updateCache calls so far
WholeCaches == {EmptyCache} \cup {log[k].post : k \in 1..Len(log)}

C4_NoPartialRead == reader.pc = "responded" => reader.got \in WholeCaches

(***************************************************************************)
(* C10. Writers are serialized and synchronous: at most one updateCache    *)
(* call is between acquiring and releasing cache.mu, and a caller that     *)
(* submitted an update is past wg.Wait() only when its own update has run  *)
(* to its end, also with several webhook requests waiting at once.         *)
(***************************************************************************)
HoldsLock(t) ==
    tasks[t].gpc \in {"branch", "clean", "add", "trigger", "retry", "sleep", "unlock"}

C10_SerializedSynchronous ==
    /\ \A t, u \in Callers : (HoldsLock(t) /\ HoldsLock(u)) => t = u
    /\ \A t \in Callers : HoldsLock(t) => mu = t
    /\ \A t \in Callers :
          (tasks[t].pc = "respond" /\ tasks[t].upd.kind # "none") =>
              /\ tasks[t].gpc = "finished"
              /\ \E k \in 1..Len(log) :
                    /\ log[k].applied /\ log[k].kind = tasks[t].upd.kind
                    /\ log[k].action = tasks[t].upd.action /\ KeyOf(k) = <<tasks[t].upd.repo, tasks[t].upd.num>>

\* two webhook requests waited at once, one is past its Wait, and a third update
\* had to wait for the lock meanwhile
C10_Witness ==
    /\ tasks["h1"].pc = "respond" /\ tasks["h1"].gpc = "finished"
    /\ tasks["h2"].pc = "wait" /\ tasks["h2"].gpc = "finished"
    /\ tasks["h2"].fired
    /\ \E k \in 1..Len(log) : log[k].kind = "boot" /\ ~log[k].branchesOnly

(***************************************************************************)
(* The job trigger under every configuration: lib#1 is listed at startup,  *)
(* then svc#1 is edited to depend on it, which changes its edges and calls *)
(* triggerPRJob with the endpoints of the configuration file.              *)
(***************************************************************************)
TrigBootList == <<[Repository |-> lib, Number |-> 1, Branch |-> "b1", DependsOn |-> <<>>]>>
TrigRequests ==
    {r \in PullRequestEvents :
        r.action = "edited" /\ r.repo = svc /\ r.num = 1 /\ r.body = BodyOf(<<Token(lib, 1)>>)}
TrigCallers == {"main", "h1"}

TrigStart ==
    /\ \E endps \in EndpointLists : Loaded(Config, endps)
    /\ cache = EmptyCache /\ phase = "pass1" /\ prList = TrigBootList /\ idx = 1
    /\ events = 0 /\ log = <<>>
    /\ ConcInit

TrigNext ==
    \/ C_BootSubmit
    \/ C_BootSecondPass
    \/ C_StartAPI
    \/ \E t \in TrigCallers : C_Wait(t) \/ C_Return(t)
    \/ \E req \in TrigRequests : C_Post("h1", req)
    \/ \E t \in TrigCallers : G_Lock(t) \/ G_Branch(t) \/ G_Clean(t) \/ G_Add(t)
    \/ \E t \in TrigCallers : T_Endpoint(t) \/ T_Wake(t) \/ (\E o \in Outcomes : T_Retry(t, o))
    \/ \E t \in TrigCallers : G_Unlock(t) \/ G_Done(t)

TrigSpec == TrigStart /\ [][TrigNext]_vars

\* vocabulary of the trigger properties
Malformed(endp) == ~GetRetryDelay(endp).ok \/ ~GetRetryCount(endp).ok
\* task t has called triggerPRJob, and triggerPRJob has returned
Triggered(t) == tasks[t].fired
TriggerReturned(t) == tasks[t].fired /\ tasks[t].gpc \in {"unlock", "done", "finished"}
\* the endpoints an iteration was made for, and those processJenkinsEndpointRetries
\* returned for
Tried(t) == {tasks[t].trace[i].ep : i \in 1..Len(tasks[t].trace)}
Processed(t) == {tasks[t].results[i].ep : i \in 1..Len(tasks[t].results)}
\* the first endpoint whose retry delay or retry count is malformed, 0 if none
FirstMalformed ==
    LET bad == {k \in 1..Len(cfg.Endpoints) : Malformed(cfg.Endpoints[k])}
    IN IF bad = {} THEN 0 ELSE CHOOSE k \in bad : \A j \in bad : k <= j

(***************************************************************************)
(* C11. Fail-fast on endpoint configuration error: in one triggerPRJob     *)
(* invocation, if the retry delay or the retry count of the endpoint at    *)
(* position k is malformed, no crumb fetch and no POST is made for         *)
(* endpoint k or any endpoint after it, while the endpoints before the     *)
(* first such k have been processed when the invocation returns.           *)
(***************************************************************************)
C11_FailFastOnConfigError ==
    \A t \in Callers : Triggered(t) =>
        /\ \A k \in 1..Len(cfg.Endpoints) : Malformed(cfg.Endpoints[k]) =>
              \A e \in Tried(t) \cup Processed(t) : e < k
        /\ (TriggerReturned(t) /\ FirstMalformed > 0) =>
              Processed(t) = 1..(FirstMalformed - 1)

\* the second of three endpoints is malformed, the first was tried, the third is
\* well configured, and triggerPRJob has returned
C11_Witness ==
    \E t \in Callers :
        /\ TriggerReturned(t) /\ Len(cfg.Endpoints) = 3 /\ FirstMalformed = 2
        /\ ~Malformed(cfg.Endpoints[3]) /\ GetRetryCount(cfg.Endpoints[3]).val > 0
        /\ 1 \in Tried(t)

(***************************************************************************)
(* C12. Exhausted retries are isolated per endpoint: if every iteration of *)
(* an endpoint fails, triggerPRJob still processes every later well-       *)
(* configured endpoint in declared order, and the failure does not fail    *)
(* the update that caused the trigger.                                     *)
(***************************************************************************)
\* the endpoints triggerPRJob has to process: those before the first malformed one
ToProcess ==
    IF FirstMalformed = 0 THEN Len(cfg.Endpoints) ELSE FirstMalformed - 1
\* every iteration the endpoint's retry count allows was made for endpoint e, and failed
Exhausted(t, e) ==
    /\ \A i \in 1..Len(tasks[t].trace) : tasks[t].trace[i].ep = e => ~tasks[t].trace[i].accepted
    /\ Cardinality({i \in 1..Len(tasks[t].trace) : tasks[t].trace[i].ep = e})
         = GetRetryCount(cfg.Endpoints[e]).val
\* the update of task t is in the log as applied, with the cache it left
UpdateKept(t) ==
    \E k \in 1..Len(log) :
        /\ log[k].applied /\ log[k].req = tasks[t].upd.req /\ log[k].triggers = 1
        /\ log[k].status = 200 /\ log[k].post = cache

C12_ExhaustedRetriesIsolated ==
    \A t \in Callers : Triggered(t) =>
        /\ \A i \in 1..Len(tasks[t].results) : tasks[t].results[i].ep = i
        /\ TriggerReturned(t) =>
              /\ Len(tasks[t].results) = ToProcess
              /\ tasks[t].status = 200 /\ ~crashed /\ UpdateKept(t)

\* the first endpoint ran out of iterations, the second one was posted to with
\* success, and triggerPRJob has returned
C12_Witness ==
    \E t \in Callers :
        /\ TriggerReturned(t) /\ Len(tasks[t].results) >= 2
        /\ Exhausted(t, 1) /\ GetRetryCount(cfg.Endpoints[1]).val = 2
        /\ tasks[t].results[1].err /\ ~tasks[t].results[2].err

(***************************************************************************)
(* C18. Retry protocol of one endpoint: at most retryCount iterations      *)
(* (none when retryCount <= 0, reported as failure); an iteration POSTs    *)
(* only after its crumb fetch succeeded; after the first POST with an      *)
(* accepted status no further iteration is made for that endpoint and      *)
(* success is returned; the next endpoint is not started before the        *)
(* current one has succeeded or exhausted its iterations.                  *)
(***************************************************************************)
IterationsOf(t, e) == {i \in 1..Len(tasks[t].trace) : tasks[t].trace[i].ep = e}
Accepted(t, e) == \E i \in IterationsOf(t, e) : tasks[t].trace[i].accepted
Max0(n) == IF n > 0 THEN n ELSE 0

C18_RetryProtocol ==
    \A t \in Callers : Triggered(t) =>
        LET tr == tasks[t].trace
            res == tasks[t].results
        IN /\ \A i \in 1..Len(tr) : tr[i].post => tr[i].crumb
           /\ \A i, j \in 1..Len(tr) : i < j => tr[i].ep <= tr[j].ep
           /\ \A i, j \in 1..Len(tr) : (i < j /\ tr[i].ep = tr[j].ep) => ~tr[i].accepted
           /\ \A e \in Tried(t) :
                 /\ Cardinality(IterationsOf(t, e)) <= Max0(GetRetryCount(cfg.Endpoints[e]).val)
                 /\ \A d \in 1..(e - 1) : d \in Processed(t)
           /\ \A k \in 1..Len(res) :
                 /\ res[k].err = ~Accepted(t, res[k].ep)
                 /\ res[k].err => Cardinality(IterationsOf(t, res[k].ep))
                                     = Max0(GetRetryCount(cfg.Endpoints[res[k].ep]).val)

\* a failed crumb fetch, then an accepted POST for the same endpoint, then the
\* next endpoint is tried; and an endpoint with a retry count below one failed
C18_Witness ==
    \E t \in Callers :
        /\ Triggered(t) /\ Len(tasks[t].trace) >= 3
        /\ tasks[t].trace[1].ep = 1 /\ ~tasks[t].trace[1].crumb
        /\ tasks[t].trace[2].ep = 1 /\ tasks[t].trace[2].accepted
        /\ tasks[t].trace[3].ep = 3
        /\ GetRetryCount(cfg.Endpoints[2]).val < 0 /\ tasks[t].results[2].err

(***************************************************************************)
(* The bootstrap alone: startHandler walks the startup listing twice,      *)
(* submitting one update at a time and waiting for it. The listings are    *)
(* the orderings of any pull requests with different keys out of           *)
(* StartupPRs.                                                             *)
(***************************************************************************)
StartupPRs ==
    BootPRs \cup
    {[Repository |-> svc, Number |-> 2, Branch |-> "b1", DependsOn |-> <<Token(lib, 1)>>]}
StartupKey(pr) == <<pr.Repository, pr.Number>>
StartupLists ==
    {l \in SeqsUpTo(StartupPRs, Cardinality({StartupKey(pr) : pr \in StartupPRs})) :
        \A i, j \in 1..Len(l) : i # j => StartupKey(l[i]) # StartupKey(l[j])}

BootStart ==
    /\ Loaded(Config, Endpoints)
    /\ cache = EmptyCache /\ phase = "pass1" /\ prList \in StartupLists /\ idx = 1
    /\ events = 0 /\ log = <<>>
    /\ ConcInit

BootNext ==
    \/ C_BootSubmit
    \/ C_BootSecondPass
    \/ C_StartAPI
    \/ C_Wait("main")
    \/ C_Return("main")
    \/ G_Lock("main") \/ G_Branch("main") \/ G_Clean("main") \/ G_Add("main")
    \/ G_Unlock("main") \/ G_Done("main")

BootSpec == BootStart /\ [][BootNext]_vars

(***************************************************************************)
(* C13. Bootstrap ordering: no update with branchesOnly=false begins       *)
(* before every branchesOnly=true update of the first pass has completed,  *)
(* and the passes never overlap; consequently, after bootstrap, for listed *)
(* pull requests A and B where A declares a dependency on B, the edge      *)
(* A -> B and its reverse entry are present whatever the listing order.    *)
(***************************************************************************)
\* the updates of the bootstrap so far, in the log
BootEntries == {k \in 1..Len(log) : log[k].kind = "boot"}
\* in the first pass only branchesOnly updates exist; in the second pass the log
\* starts with the completed branchesOnly update of every listed pull request
BootPassesOrdered ==
    /\ phase = "pass1" =>
          /\ \A k \in BootEntries : log[k].branchesOnly
          /\ tasks["main"].upd.kind # "none" => tasks["main"].upd.branchesOnly
    /\ phase = "pass2" =>
          /\ Len(log) >= Len(prList)
          /\ \A k \in 1..Len(prList) :
                log[k].branchesOnly /\ log[k].applied /\ KeyOf(k) = StartupKey(prList[k])
          /\ \A k \in BootEntries : k > Len(prList) => ~log[k].branchesOnly
          /\ tasks["main"].upd.kind # "none" => ~tasks["main"].upd.branchesOnly
\* for listed A and B with A declaring B, the edge and its reverse entry are there
BootEdgesPresent ==
    \A a, b \in {k \in BootEntries : ~log[k].branchesOnly} :
        \A i \in 1..Len(log[a].deps) :
            (TargetOf(log[a].deps[i]).ok /\ TargetOf(log[a].deps[i]).key = KeyOf(b)) =>
                /\ HasEdge(cache, KeyOf(a), KeyOf(b))
                /\ HasReverse(cache, KeyOf(a), KeyOf(b))

C13_BootstrapOrdering ==
    /\ BootPassesOrdered
    /\ phase = "serving" => BootEdgesPresent

(***************************************************************************)
(* The concurrent program with its scheduling: the Go scheduler lets every *)
(* goroutine that can take a step take one eventually, so the steps of     *)
(* each caller and of the updateCache goroutine it started are weakly      *)
(* fair. Requests arrive, and the runtime detects a race, or not.          *)
(***************************************************************************)
TaskStep(t) ==
    \/ C_Wait(t) \/ C_Return(t)
    \/ G_Lock(t) \/ G_Branch(t) \/ G_Clean(t) \/ G_Add(t)
    \/ T_Endpoint(t) \/ T_Wake(t) \/ (\E o \in Outcomes : T_Retry(t, o))
    \/ G_Unlock(t) \/ G_Done(t)

ConcLive == ConcSpec /\ \A t \in Callers : WF_vars(TaskStep(t))

(***************************************************************************)
(* C14. Every trigger invocation, and therefore every updateCache call,    *)
(* runs to completion: on every path the cache lock is released and the    *)
(* WaitGroup is signalled exactly once, so no submitted update and no      *)
(* waiting caller blocks forever.                                          *)
(***************************************************************************)
\* the updateCache goroutine of caller t has started and has not called wg.Done() yet
Running(t) == tasks[t].gpc \notin {"none", "finished"}
\* the counter of the WaitGroup is the number of running updates, and the mutex
\* is held exactly while an update is between Lock and Unlock
SignalledOnce ==
    /\ wg = Cardinality({t \in Callers : Running(t)})
    /\ (mu = "free") = (\A t \in Callers : ~HoldsLock(t))

C14_UpdatesRunToCompletion ==
    /\ []SignalledOnce
    /\ \A t \in Callers :
          (tasks[t].pc = "wait") ~> (tasks[t].pc = "respond" /\ tasks[t].gpc = "finished")

(***************************************************************************)
(* The repository filter under every configuration: the API serves         *)
(* pull_request events of three repositories, and an event reaches         *)
(* updateCache exactly when checkIfRepoShouldBeIncluded lets its           *)
(* repository through.                                                     *)
(***************************************************************************)
\* the rules a configuration file is made of: a literal name, the wildcard, a
\* pattern matching ext and a pattern matching lib
RuleKinds ==
    {[Name |-> svc, RegExp |-> FALSE],
     [Name |-> <<"*">>, RegExp |-> FALSE],
     [Name |-> <<"^", "e", "x">>, RegExp |-> TRUE],
     [Name |-> <<"b", "$">>, RegExp |-> TRUE]}
RuleLists == UNION {[1..k -> RuleKinds] : k \in 0..MaxRules}
FilterConfigs == [Repositories : RuleLists, ExcludeRepositories : RuleLists]
FilterRequests ==
    [sigOK : {TRUE}, json : {TRUE}, event : {"pull_request"}, action : {"opened"},
     repo : {svc, lib, ext}, num : {1}, branch : BranchNames, body : {BodyOf(<<>>)}]

FilterStart ==
    /\ \E f \in FilterConfigs : Loaded(f, Endpoints)
    /\ cache = EmptyCache /\ phase = "pass1" /\ prList = <<>> /\ idx = 1
    /\ events = 0 /\ log = <<>>
    /\ ConcInit

FilterNext ==
    \/ BootSecondPass
    \/ StartAPI
    \/ \E req \in FilterRequests : apiHandlerPost(req)

FilterSpec == FilterStart /\ [][FilterNext]_vars

(***************************************************************************)
(* C15. Filter precedence: checkIfRepoShouldBeIncluded returns true for a  *)
(* repository exactly when at least one inclusion rule matches it and no   *)
(* exclusion rule matches it.                                              *)
(***************************************************************************)
SomeRuleMatches(rules, repo) == \E k \in 1..Len(rules) : RuleMatches(rules[k], repo)
ShouldBeIncluded(repo) ==
    /\ SomeRuleMatches(cfg.Filter.Repositories, repo)
    /\ ~SomeRuleMatches(cfg.Filter.ExcludeRepositories, repo)

C15_FilterPrecedence ==
    /\ \A repo \in {svc, lib, ext} :
          checkIfRepoShouldBeIncluded(cfg.Filter, repo) = ShouldBeIncluded(repo)
    /\ \A k \in 1..Len(log) :
          log[k].kind = "webhook" => (log[k].applied = ShouldBeIncluded(log[k].req.repo))

\* the wildcard includes and the literal svc excludes: the event of svc was
\* dropped and the event of lib was applied
C15_Witness ==
    /\ cfg.Filter.Repositories = <<[Name |-> <<"*">>, RegExp |-> FALSE]>>
    /\ cfg.Filter.ExcludeRepositories = <<[Name |-> svc, RegExp |-> FALSE]>>
    /\ Len(log) = 2
    /\ log[1].req.repo = svc /\ ~log[1].applied
    /\ log[2].req.repo = lib /\ log[2].applied

(***************************************************************************)
(* C16. Branch presence tracks the pull request's open state: after any    *)
(* sequence of pull_request events delivered to the webhook for an         *)
(* in-scope repository, Branches[repo][num] is present (holding the branch *)
(* of the latest such event) exactly when the most recent event delivered  *)
(* for (repo, num) was opened, edited or reopened, and absent when it was  *)
(* closed; no event for another key changes Branches[repo][num].           *)
(***************************************************************************)
Lifecycle == Upserts \cup {"closed"}
AllKeys == {<<r, n>> : r \in Repos, n \in Nums}
Last(S) == CHOOSE k \in S : \A j \in S : j <= k
\* Branches[K] as a set: empty when absent, else the branch it holds
BranchAt(c, K) == IF Has2(c.Branches, K[1], K[2]) THEN {c.Branches[K[1]][K[2]]} ELSE {}
\* entry k is a pull_request event with a lifecycle action, delivered for key K
Delivered(k, K) ==
    /\ log[k].kind = "webhook" /\ log[k].req.sigOK /\ log[k].req.json
    /\ log[k].req.event = "pull_request" /\ log[k].req.action \in Lifecycle
    /\ <<log[k].req.repo, log[k].req.num>> = K
\* Branches[K] is what entry k asks for
BranchFollows(k, K) ==
    BranchAt(cache, K) = IF log[k].action \in Upserts THEN {log[k].branch} ELSE {}
\* entry k left Branches[K] as it was
BranchKept(k, K) == BranchAt(log[k].post, K) = BranchAt(PreOf(k), K)

\* the claim as stated: every delivered event counts
C16_BranchTracksDeliveredEvents ==
    \A K \in AllKeys :
        LET D == {k \in 1..Len(log) : Delivered(k, K)}
        IN /\ D # {} => BranchFollows(Last(D), K)
           /\ \A k \in 1..Len(log) :
                  log[k].kind = "webhook" /\ ~Delivered(k, K) => BranchKept(k, K)

\* the claim as amended: the updates that count are those that reached updateCache,
\* the bootstrap's included; every other entry leaves Branches[K] as it was
AppliedFor(k, K) == log[k].applied /\ log[k].action \in Lifecycle /\ KeyOf(k) = K

C16_BranchTracksAppliedUpdates ==
    \A K \in AllKeys :
        LET U == {k \in 1..Len(log) : AppliedFor(k, K)}
        IN /\ IF U = {} THEN BranchAt(cache, K) = {} ELSE BranchFollows(Last(U), K)
           /\ \A k \in 1..Len(log) : ~AppliedFor(k, K) => BranchKept(k, K)

\* lib#1 was listed at startup, then edited with a renamed branch, then a closed
\* event of lib#1 with an empty body was dropped: Branches holds the new name
C16_Witness ==
    /\ Len(log) = 4
    /\ log[1].kind = "boot" /\ KeyOf(1) = <<lib, 1>> /\ log[1].branch = "b1"
    /\ log[3].applied /\ log[3].action = "edited" /\ KeyOf(3) = <<lib, 1>> /\ log[3].branch = "b2"
    /\ ~log[4].applied /\ log[4].req.action = "closed" /\ log[4].req.body = EmptyStr
    /\ BranchAt(cache, <<lib, 1>>) = {"b2"}

(***************************************************************************)
(* C17. Replace, not merge: after an opened, edited or reopened update for *)
(* (repo, num) with branchesOnly false, Dependencies[repo][num] is exactly *)
(* the map built from the well-formed tokens of this event whose target    *)
(* has a Branches entry, with the later token winning when two tokens name *)
(* the same target repository; no edge from the previous edge map of       *)
(* (repo, num) survives unless the event declares it again, and for every  *)
(* previous edge that is not re-declared the reverse entry for repo under  *)
(* the old target's Dependents is gone.                                    *)
(***************************************************************************)
\* the positions of the well-formed tokens of entry k whose target has a branch and
\* is a pull request of repository r
Resolved(k, r) ==
    {i \in 1..Len(log[k].deps) :
        /\ TargetOf(log[k].deps[i]).ok
        /\ TargetOf(log[k].deps[i]).key[1] = r
        /\ Has2(log[k].post.Branches, r, TargetOf(log[k].deps[i]).key[2])}
\* the edge map these tokens build, the later token winning
DeclaredMap(k) ==
    [r \in {t \in Repos : Resolved(k, t) # {}} |->
        TargetOf(log[k].deps[Last(Resolved(k, r))]).key[2]]
IsUpsert(k) == IsUpdate(k) /\ log[k].action \in Upserts
\* the previous edges of the pull request of entry k that its tokens do not name
Undeclared(k) ==
    {T \in {<<t, DepsBefore(PreOf(k), log[k].repo, log[k].num)[t]>> :
                t \in DOMAIN DepsBefore(PreOf(k), log[k].repo, log[k].num)} :
        T \notin TargetsOf(log[k].deps)}

C17_ReplaceNotMerge ==
    \A k \in 1..Len(log) :
        IsUpsert(k) =>
            /\ Has2(log[k].post.Dependencies, log[k].repo, log[k].num)
            /\ log[k].post.Dependencies[log[k].repo][log[k].num] = DeclaredMap(k)
            /\ \A T \in Undeclared(k) :
                  /\ ~HasEdge(log[k].post, KeyOf(k), T)
                  /\ ~Has3(log[k].post.Dependents, T[1], T[2], log[k].repo)

\* svc#1 depended on itself; lib#1 and lib#2 are open; svc#1 is edited naming lib#1
\* and then lib#2: its edge map is lib -> 2 alone, the edge to itself and the
\* reverse entry of that edge are gone
C17_Witness ==
    /\ Len(log) >= 2
    /\ LET k == Len(log)
       IN /\ IsUpsert(k) /\ KeyOf(k) = <<svc, 1>>
          /\ log[k].deps = <<Token(lib, 1), Token(lib, 2)>>
          /\ Resolved(k, lib) = {1, 2}
          /\ Undeclared(k) = {<<svc, 1>>}
          /\ HasReverse(PreOf(k), <<svc, 1>>, <<svc, 1>>)
          /\ DOMAIN cache.Dependencies[svc][1] = {lib}
          /\ HasEdge(cache, <<svc, 1>>, <<lib, 2>>)
          /\ ~Has3(cache.Dependents, svc, 1, svc)

(***************************************************************************)
(* C19. Webhook short-circuit is a no-op: a pull_request event whose       *)
(* repository is empty or whose body is empty, whatever its action         *)
(* (including closed and edited), leaves Branches, Dependencies and        *)
(* Dependents unchanged, never invokes the Job Trigger, and is answered    *)
(* with success; the same holds for an event whose repository is rejected  *)
(* by the repository filter and for a ping event.  The events are those    *)
(* that passed signature verification (line 369).                          *)
(***************************************************************************)
\* entry k is a pull_request event with a payload that could be read
PullRequestEvent(k) ==
    /\ log[k].kind = "webhook" /\ log[k].req.sigOK
    /\ log[k].req.json /\ log[k].req.event = "pull_request"
PingEvent(k) == log[k].kind = "webhook" /\ log[k].req.sigOK /\ log[k].req.event = "ping"
\* entry k is one of the events the claim is about
Dropped(k) ==
    \/ PingEvent(k)
    \/ /\ PullRequestEvent(k)
       /\ \/ log[k].req.repo = EmptyStr
          \/ log[k].req.body = EmptyStr
          \/ ~ShouldBeIncluded(log[k].req.repo)
NoOpSuccess(k) ==
    /\ ~log[k].applied
    /\ log[k].post = PreOf(k)
    /\ log[k].triggers = 0
    /\ log[k].status = 200

C19_ShortCircuitIsNoOp == \A k \in 1..Len(log) : Dropped(k) => NoOpSuccess(k)

\* svc#1 is open with an edge to lib#1; a closed event of svc#1 with an empty body
\* and then a ping whose payload is not JSON were answered, and the cache is as it was
C19_Witness ==
    /\ Len(log) >= 3
    /\ LET k == Len(log)
       IN /\ PullRequestEvent(k - 1) /\ log[k - 1].req.action = "closed"
          /\ log[k - 1].req.body = EmptyStr /\ KeyOf(k - 1) = <<svc, 1>>
          /\ PingEvent(k) /\ ~log[k].req.json
          /\ HasEdge(PreOf(k - 1), <<svc, 1>>, <<lib, 1>>)
          /\ cache = PreOf(k - 1)
          /\ log[k].status = 200 /\ log[k - 1].status = 200

(***************************************************************************)
(* C20. An update for pull request (repo, num) never removes or overwrites *)
(* a reverse-index entry that records a different pull request of the same *)
(* repository: if Dependents[tRepo][tNum][repo] == num2 with num2 != num   *)
(* before an opened, edited, reopened or closed update for (repo, num),    *)
(* and target (tRepo, tNum) still has a Branches entry, then               *)
(* Dependents[tRepo][tNum][repo] == num2 still holds after the update      *)
(* unless the update itself declares (tRepo, tNum) as a dependency.        *)
(***************************************************************************)
\* the reverse entries <<T, num2>> of another pull request of the repository of
\* entry k that the update of entry k has no reason to touch
ForeignEntries(k) ==
    {e \in KeysOf(PreOf(k).Dependents) \X Nums :
        /\ Has3(PreOf(k).Dependents, e[1][1], e[1][2], log[k].repo)
        /\ PreOf(k).Dependents[e[1][1]][e[1][2]][log[k].repo] = e[2]
        /\ e[2] # log[k].num
        /\ Has2(log[k].post.Branches, e[1][1], e[1][2])
        /\ e[1] \notin TargetsOf(log[k].deps)}

C20_ForeignReverseEntryKept ==
    \A k \in 1..Len(log) :
        (IsUpdate(k) /\ log[k].action \in Lifecycle) =>
            \A e \in ForeignEntries(k) :
                /\ Has3(log[k].post.Dependents, e[1][1], e[1][2], log[k].repo)
                /\ log[k].post.Dependents[e[1][1]][e[1][2]][log[k].repo] = e[2]

=============================================================================
